---- MODULE Spec2Model ----
(***************************************************************************)
(* Model of the voice chat monitor (src/bot.py, src/config.py):            *)
(*   - the participant classifier: is_channel and the bot filter of its    *)
(*     callers check_and_ban_channels / get_voice_chat_participants;       *)
(*   - the scan cycle: get_voice_chat_participants, ban_channel,           *)
(*     detect_speaking_changes over the monitor's instance fields;         *)
(*   - the burst detector over mute_history (declared in __init__, its     *)
(*     recording step taken from the specification text).                  *)
(*   - construction of the monitor over the settings of config.py.         *)
(* Text is modelled as a sequence of one-character strings, so that        *)
(* lower() and the substring test are computed and not assumed.            *)
(***************************************************************************)
EXTENDS Integers, Sequences, FiniteSets, TLC

VARIABLES
    participant,        \* classifier: the participant record under classification
    user,               \* classifier: what get_entity yielded ("pending" kind before)
    rule,               \* classifier: the return statement reached ("pending" before)
    verdict,            \* classifier: the value the bot filter + is_channel yield
    pc,                 \* monitor: position of start()
    periodic,           \* monitor: position of the periodic_monitoring() task
    group,              \* platform: id -> participant record of the group's members
    fresh,              \* the outputs of the last scan describe `group`
    admin_ids,          \* monitor: self.admin_ids
    banned_channels,    \* monitor: self.banned_channels
    user_states,        \* monitor: self.user_states
    last_participants,  \* monitor: self.last_participants
    ban_requests,       \* ids an EditBannedRequest was issued for by the scan just
                        \* completed (emptied when the group changes after it)
    sent,               \* messages that scan handed to send_log_message (likewise)
    last_scan,          \* what that scan observed and returned (likewise)
    now,                \* burst detector: the clock (seconds)
    mute_history,       \* burst detector: self.mute_history
    alarmed,            \* burst detector: result of the last recordAndCheck
    last_identity,      \* burst detector: identity of the last recordAndCheck (0: none)
    events,             \* burst detector: number of recordAndCheck calls so far
    config,             \* configuration: the values of the config module
    constructed         \* configuration: VoiceChatMonitor() has returned

classifier_vars == <<participant, user, rule, verdict>>
monitor_vars == <<pc, periodic, group, fresh, admin_ids, banned_channels,
                  user_states, last_participants, ban_requests, sent, last_scan>>
burst_vars == <<now, mute_history, alarmed, last_identity, events>>
config_vars == <<config, constructed>>
vars == <<classifier_vars, monitor_vars, burst_vars, config_vars>>

(***************************************************************************)
(* Text                                                                    *)
(***************************************************************************)
Upper == <<"A","B","C","D","E","F","G","H","I","J","K","L","M",
           "N","O","P","Q","R","S","T","U","V","W","X","Y","Z">>
LowerLetters == <<"a","b","c","d","e","f","g","h","i","j","k","l","m",
                  "n","o","p","q","r","s","t","u","v","w","x","y","z">>

\* str.lower() on one character
LowerChar(c) ==
    IF \E i \in 1..26 : Upper[i] = c
    THEN LowerLetters[CHOOSE i \in 1..26 : Upper[i] = c]
    ELSE c

\* str.lower()
Lower(s) == [i \in 1..Len(s) |-> LowerChar(s[i])]

\* the Python test `kw in s`
Contains(s, kw) ==
    \E i \in 0..(Len(s) - Len(kw)) :
        \A j \in 1..Len(kw) : s[i + j] = kw[j]

\* f"{a} {b}"
JoinSpace(a, b) == a \o <<" ">> \o b

kw_channel == <<"c","h","a","n","n","e","l">>
kw_chat == <<"c","h","a","t">>
kw_group == <<"g","r","o","u","p">>
kw_bot == <<"b","o","t">>
kw_news == <<"n","e","w","s">>
kw_broadcast == <<"b","r","o","a","d","c","a","s","t">>
kw_telegram == <<"t","e","l","e","g","r","a","m">>

Empty == <<>>
s_football_chat == <<"f","o","o","t","b","a","l","l","_","c","h","a","t">>
s_News_Channel == <<"N","e","w","s","_","C","H","A","N","N","E","L">>
s_mychannel == <<"m","y","c","h","a","n","n","e","l">>
s_john == <<"j","o","h","n">>
s_helper_bot == <<"h","e","l","p","e","r","_","b","o","t">>
s_John == <<"J","o","h","n">>
s_Tech == <<"T","e","c","h">>
s_Smith == <<"S","m","i","t","h">>
s_News == <<"N","e","w","s">>
s_News_Desk == <<"N","e","w","s"," ","D","e","s","k">>

Usernames == {Empty, s_football_chat, s_News_Channel, s_mychannel, s_john, s_helper_bot}
FirstNames == {Empty, s_John, s_Tech}
LastNames == {Empty, s_Smith, s_News}
Titles == {Empty, s_News_Desk}

(***************************************************************************)
(* Participant records                                                     *)
(***************************************************************************)
Ids == {2, 3}

\* participants_count, an optional attribute: no value, or one
Absent == {}

\* get_entity raised
ErrorEntity == [kind |-> "error", broadcast |-> FALSE, megagroup |-> FALSE]

\* The entity behind an id: a User (no broadcast / megagroup attribute) or a
\* Channel carrying both flags.
Entities ==
    {[kind |-> "User", broadcast |-> FALSE, megagroup |-> FALSE]}
    \cup [kind : {"Channel"}, broadcast : BOOLEAN, megagroup : BOOLEAN]

\* A participant as get_participants returns it, together with the entity its
\* id resolves to (the same account, hence the same username).
Participants ==
    [id : Ids, bot : BOOLEAN, is_Channel : BOOLEAN, entity : Entities,
     username : Usernames, first_name : FirstNames, last_name : LastNames,
     title : Titles, verified : BOOLEAN, participants_count : {Absent, {0}, {5}}]

\* `await self.client.get_entity(participant.id)`: the entity, or an exception
get_entity(p) == {p.entity, ErrorEntity}

(***************************************************************************)
(* Classifier: is_channel (bot.py 121-140) behind the bot filter of its    *)
(* callers (bot.py 210-214, 258-266).                                      *)
(***************************************************************************)
\* Variant: the test without lower()
username_test_case_sensitive(u) == Len(u) > 0 /\ Contains(u, kw_channel)

\* the `user.username and 'channel' in user.username.lower()` test of line 134
username_test(u) == Len(u) > 0 /\ Contains(Lower(u), kw_channel)

\* The usernames of the model that pass the test
channel_usernames == {u \in Usernames : username_test(u)}

\* Variant: the megagroup check left out
is_channel_return_no_megagroup(p, u) ==
    IF p.is_Channel THEN "isinstance"
    ELSE IF u.kind = "error" THEN "error"
    ELSE IF u.kind = "Channel" /\ u.broadcast THEN "broadcast"
    ELSE IF p.username \in channel_usernames THEN "username"
    ELSE "default"

\* Variant: the username test moved ahead of the type flags
is_channel_return_username_first(p, u) ==
    IF p.is_Channel THEN "isinstance"
    ELSE IF u.kind = "error" THEN "error"
    ELSE IF p.username \in channel_usernames THEN "username"
    ELSE IF u.kind = "Channel" /\ u.broadcast THEN "broadcast"
    ELSE IF u.kind = "Channel" /\ u.megagroup THEN "megagroup"
    ELSE "default"

\* Variant: a title without personal names also returns True
is_channel_return_title_rule(p, u) ==
    IF p.is_Channel THEN "isinstance"
    ELSE IF u.kind = "error" THEN "error"
    ELSE IF u.kind = "Channel" /\ u.broadcast THEN "broadcast"
    ELSE IF u.kind = "Channel" /\ u.megagroup THEN "megagroup"
    ELSE IF p.username \in channel_usernames THEN "username"
    ELSE IF Len(p.title) > 0 /\ Len(p.first_name) = 0 /\ Len(p.last_name) = 0
         THEN "username"
    ELSE "default"

\* The return statement is_channel leaves by; u is what get_entity yielded.
is_channel_return(p, u) ==
    IF p.is_Channel THEN "isinstance"
    ELSE IF u.kind = "error" THEN "error"
    ELSE IF u.kind = "Channel" /\ u.broadcast THEN "broadcast"
    ELSE IF u.kind = "Channel" /\ u.megagroup THEN "megagroup"
    ELSE IF p.username \in channel_usernames THEN "username"
    ELSE "default"

\* Variant: the final `return False` returns True
is_channel_default_true(p, u) ==
    is_channel_return(p, u) \in {"isinstance", "broadcast", "megagroup", "username", "default"}

is_channel(p, u) ==
    is_channel_return(p, u) \in {"isinstance", "broadcast", "megagroup", "username"}

\* Variant: the bot check left out
bot_filter_missing(p) == FALSE

\* `if participant.bot: continue` ahead of `if await self.is_channel(participant)`
bot_filter(p) == p.bot

classify_rule(p, u) == IF bot_filter(p) THEN "bot_skip" ELSE is_channel_return(p, u)

classify(p, u) == IF bot_filter(p) THEN FALSE ELSE is_channel(p, u)

(***************************************************************************)
(* Display names                                                           *)
(***************************************************************************)
Digits == <<"0","1","2","3","4","5","6","7","8","9">>

\* str(n) of f"...{user_id}", n >= 0
RECURSIVE Decimal(_)
Decimal(n) == IF n < 10 THEN <<Digits[n + 1]>>
              ELSE Decimal(n \div 10) \o <<Digits[(n % 10) + 1]>>

s_Channel == <<"C","h","a","n","n","e","l">>
s_User == <<"U","s","e","r">>

\* Variant: the first name is preferred to the title
display_name_first_name_first(p) ==
    IF Len(p.first_name) > 0 /\ Len(p.last_name) > 0
    THEN JoinSpace(p.first_name, p.last_name)
    ELSE IF Len(p.first_name) > 0 THEN p.first_name
    ELSE IF Len(p.title) > 0 THEN p.title
    ELSE s_Channel \o Decimal(p.id)

\* check_and_ban_channels, "Create display name"
display_name(p) ==
    IF Len(p.title) > 0 THEN p.title
    ELSE IF Len(p.first_name) > 0 /\ Len(p.last_name) > 0
         THEN JoinSpace(p.first_name, p.last_name)
    ELSE IF Len(p.first_name) > 0 THEN p.first_name
    ELSE s_Channel \o Decimal(p.id)

\* get_voice_chat_participants, "Create display name"
full_name(p) ==
    IF Len(p.first_name) > 0 /\ Len(p.last_name) > 0
    THEN JoinSpace(p.first_name, p.last_name)
    ELSE IF Len(p.first_name) > 0 THEN p.first_name
    ELSE s_User \o Decimal(p.id)

(***************************************************************************)
(* The monitor: start(), periodic_monitoring() and the scan cycle          *)
(***************************************************************************)
NoEntries == [i \in {} |-> TRUE]

Restrict(f, S) == [i \in S |-> f[i]]

UserEntity == [kind |-> "User", broadcast |-> FALSE, megagroup |-> FALSE]
BroadcastEntity == [kind |-> "Channel", broadcast |-> TRUE, megagroup |-> FALSE]

\* The accounts the group's members are drawn from in the scan cycle.
Profile(bot, inst, ent, uname, first, last, title) ==
    [bot |-> bot, is_Channel |-> inst, entity |-> ent, username |-> uname,
     first_name |-> first, last_name |-> last, title |-> title,
     verified |-> FALSE, participants_count |-> Absent]

Profiles ==
    { Profile(FALSE, FALSE, UserEntity, s_john, s_John, s_Smith, Empty),
      Profile(TRUE, TRUE, BroadcastEntity, s_News_Channel, Empty, Empty, s_News_Desk),
      Profile(FALSE, FALSE, BroadcastEntity, Empty, Empty, Empty, s_News_Desk),
      Profile(FALSE, FALSE, UserEntity, s_mychannel, s_John, Empty, Empty),
      Profile(FALSE, FALSE, UserEntity, s_football_chat, Empty, Empty, Empty),
      Profile(FALSE, FALSE, UserEntity, Empty, Empty, Empty, s_News_Desk) }

Member(i, prof) ==
    [id |-> i, bot |-> prof.bot, is_Channel |-> prof.is_Channel,
     entity |-> prof.entity, username |-> prof.username,
     first_name |-> prof.first_name, last_name |-> prof.last_name,
     title |-> prof.title, verified |-> prof.verified,
     participants_count |-> prof.participants_count]

Message(kind, i, name) == [kind |-> kind, id |-> i, name |-> name]

\* What get_entity yields for member i in a pass whose failed lookups are err
lookup(i, err) == IF i \in err THEN ErrorEntity ELSE group[i].entity

\* Members whose classification calls get_entity (is_channel passes line 125)
looked_up == {i \in DOMAIN group : ~group[i].bot /\ ~group[i].is_Channel}

\* check_and_ban_channels: the ids ban_channel is called with
channels_found(err) == {i \in DOMAIN group : classify(group[i], lookup(i, err))}

\* Variant: ban_channel without the `in self.banned_channels` early return
ban_issued_again(found) == found

\* ban_channel: an EditBannedRequest is issued unless the id is already banned
ban_issued(found) == found \ banned_channels

\* Variant: the id is added before the request is awaited
ban_recorded_before_request(issued, ban_fail) == issued

\* ban_channel: the id is added once the request returned
ban_recorded(issued, ban_fail) == issued \ ban_fail

\* `is_speaking = not is_admin and (user_id % 3 == 0)`
is_speaking(i, is_admin) == ~is_admin /\ (i % 3 = 0)

\* get_voice_chat_participants, lines 255-289
current_participants(err) ==
    LET kept == {i \in DOMAIN group :
                    ~group[i].bot /\ ~is_channel(group[i], lookup(i, err))}
    IN [i \in kept |->
           LET is_admin == i \in admin_ids
               speaking == is_speaking(i, is_admin)
           IN [name |-> full_name(group[i]), username |-> group[i].username,
               muted |-> ~speaking, is_admin |-> is_admin, speaking |-> speaking]]

\* Variant: detect_speaking_changes without the `if is_admin: continue`
tracked_with_admins(current) == DOMAIN current

\* detect_speaking_changes: the ids its first loop handles
tracked(current) == {i \in DOMAIN current : ~current[i].is_admin}

\* Variant: MIC ON for every speaking participant of every scan
speaking_messages_every_scan(current) ==
    {Message("MIC_ON", i, current[i].name) :
        i \in {j \in tracked(current) : current[j].speaking}}

\* detect_speaking_changes: the MIC ON / MIC OFF messages
speaking_messages(current) ==
    {Message("MIC_ON", i, current[i].name) :
        i \in {j \in tracked(current) :
                 IF j \in DOMAIN user_states
                 THEN ~user_states[j].speaking /\ current[j].speaking
                 ELSE current[j].speaking}}
    \cup
    {Message("MIC_OFF", i, current[i].name) :
        i \in {j \in tracked(current) \cap DOMAIN user_states :
                 user_states[j].speaking /\ ~current[j].speaking}}

\* Variant: detect_speaking_changes without its clean-up loop
detect_speaking_changes_no_cleanup(current) ==
    LET keys == DOMAIN user_states \cup tracked(current)
    IN [i \in keys |->
           IF i \notin DOMAIN user_states
           THEN [muted |-> current[i].muted, speaking |-> current[i].speaking,
                 is_admin |-> current[i].is_admin]
           ELSE IF i \notin DOMAIN current THEN user_states[i]
           ELSE IF current[i].is_admin THEN user_states[i]
           ELSE [user_states[i] EXCEPT !.speaking = current[i].speaking]]

\* detect_speaking_changes: user_states after both loops.  An entry's name,
\* username and last_update are written and never read; they are left out.
detect_speaking_changes(current) ==
    LET keys == (DOMAIN user_states \cup tracked(current)) \cap DOMAIN current
    IN [i \in keys |->
           IF i \notin DOMAIN user_states
           THEN [muted |-> current[i].muted, speaking |-> current[i].speaking,
                 is_admin |-> current[i].is_admin]
           ELSE IF current[i].is_admin THEN user_states[i]
           ELSE [user_states[i] EXCEPT !.speaking = current[i].speaking]]

\* `self.last_participants = current_participants`.  The field is assigned
\* and never read; the entries keep their flags, not name, username, last_seen.
stored(current) ==
    [i \in DOMAIN current |->
        [muted |-> current[i].muted, is_admin |-> current[i].is_admin,
         speaking |-> current[i].speaking]]

\* ban_channel / log_channel_ban: the messages of the ban pass; the ban
\* report follows a request that returned, the failure report one that raised
ban_messages(issued, ban_fail) ==
    {Message("BANNED", i, display_name(group[i])) : i \in issued \ ban_fail}
    \cup {Message("BAN_FAILED", i, display_name(group[i])) : i \in issued \cap ban_fail}

\* check_and_ban_channels over the fetched participants; err: the lookups
\* that raise, ban_fail: the ban requests that raise
check_and_ban_channels(err, ban_fail) ==
    LET issued == ban_issued(channels_found(err))
    IN /\ ban_requests' = issued
       /\ banned_channels' = banned_channels \cup ban_recorded(issued, ban_fail)

\* What a scan observed: ok, the fetch succeeded; found, the ids the ban pass
\* classified as channels; skipped, the ids the tracking pass classified as
\* channels; removed, the ids the clean-up loop deleted from user_states;
\* returned, the keys of the mapping the call returned.
NoScan == [ok |-> FALSE, found |-> {}, skipped |-> {}, removed |-> {}, returned |-> {}]

\* Variant: a failed fetch is handled as an empty participant list
fetch_failed_as_empty ==
    /\ ban_requests' = {}
    /\ sent' = {}
    /\ last_scan' = NoScan
    /\ user_states' = NoEntries
    /\ last_participants' = NoEntries
    /\ UNCHANGED banned_channels

\* get_voice_chat_participants: get_entity(group) or get_participants raised;
\* the except branch returns {} and nothing else ran
fetch_failed ==
    /\ ban_requests' = {}
    /\ sent' = {}
    /\ last_scan' = NoScan
    /\ UNCHANGED <<banned_channels, user_states, last_participants>>

\* get_voice_chat_participants as a whole; fetch_ok: get_entity(group) and
\* get_participants returned; err1, err2: the lookups that raise in the ban
\* pass and in the tracking pass; ban_fail: the ban requests that raise.
get_voice_chat_participants(fetch_ok, err1, err2, ban_fail) ==
    IF ~fetch_ok
    THEN fetch_failed
    ELSE LET issued == ban_issued(channels_found(err1))
             current == current_participants(err2)
         IN /\ check_and_ban_channels(err1, ban_fail)
            /\ sent' = ban_messages(issued, ban_fail)
                       \cup speaking_messages(current)
            /\ user_states' = detect_speaking_changes(current)
            /\ last_participants' = stored(current)
            /\ last_scan' = [ok |-> TRUE,
                             found |-> channels_found(err1),
                             skipped |-> channels_found(err2),
                             removed |-> DOMAIN user_states \ DOMAIN current,
                             returned |-> DOMAIN current]

MonitorIdle ==
    /\ pc = "new"
    /\ periodic = "none"
    /\ group = NoEntries
    /\ fresh = FALSE
    /\ admin_ids = {}
    /\ banned_channels = {}
    /\ user_states = NoEntries
    /\ last_participants = NoEntries
    /\ ban_requests = {}
    /\ sent = {}
    /\ last_scan = NoScan

\* An account joins the group, or a member's account changes.
Join ==
    \E i \in Ids, prof \in Profiles :
        /\ group' = [j \in DOMAIN group \cup {i} |->
                        IF j = i THEN Member(i, prof) ELSE group[j]]
        /\ group' # group
        /\ fresh' = FALSE
        /\ ban_requests' = {}
        /\ sent' = {}
        /\ last_scan' = NoScan
        /\ UNCHANGED <<pc, periodic, admin_ids, banned_channels, user_states,
                       last_participants>>

\* A member leaves the group (or is removed by a ban).
Leave ==
    \E i \in DOMAIN group :
        /\ group' = Restrict(group, DOMAIN group \ {i})
        /\ fresh' = FALSE
        /\ ban_requests' = {}
        /\ sent' = {}
        /\ last_scan' = NoScan
        /\ UNCHANGED <<pc, periodic, admin_ids, banned_channels, user_states,
                       last_participants>>

\* start(): get_admin_list; on an exception admin_ids keeps its value
get_admin_list ==
    /\ pc = "new"
    /\ pc' = "admins"
    /\ \E ok \in BOOLEAN, admins \in SUBSET DOMAIN group :
          admin_ids' = IF ok THEN admins ELSE admin_ids
    /\ fresh' = FALSE
    /\ UNCHANGED <<periodic, group, banned_channels, user_states,
                   last_participants, ban_requests, sent, last_scan>>

\* One get_voice_chat_participants call runs to its return
Scan ==
    \E fetch_ok \in BOOLEAN, err1 \in SUBSET looked_up, err2 \in SUBSET looked_up :
        \E ban_fail \in SUBSET ban_issued(channels_found(err1)) :
            /\ fetch_ok \/ (err1 = {} /\ err2 = {} /\ ban_fail = {})
            /\ get_voice_chat_participants(fetch_ok, err1, err2, ban_fail)
            /\ fresh' = TRUE
            /\ UNCHANGED <<group, admin_ids>>

\* a task enters get_voice_chat_participants; nothing is written yet
enter_scan ==
    UNCHANGED <<group, fresh, admin_ids, banned_channels, user_states,
                last_participants, ban_requests, sent, last_scan>>

\* start(): `await self.get_voice_chat_participants()` is entered
BeginInitialScan ==
    /\ pc = "admins"
    /\ pc' = "initial_scan"
    /\ enter_scan
    /\ UNCHANGED periodic

\* start(): the initial scan returns
InitialScan ==
    /\ pc = "initial_scan"
    /\ pc' = "scanned"
    /\ Scan
    /\ UNCHANGED periodic

\* Variant: the periodic task is created without awaiting the initial scan
may_create_task_early(p) == p \in {"initial_scan", "scanned"}

\* start(): the position at which asyncio.create_task(...) is reached
may_create_task(p) == p = "scanned"

\* start(): asyncio.create_task(self.periodic_monitoring()), then the
\* never-completing `await asyncio.Future()`
create_task ==
    /\ may_create_task(pc)
    /\ periodic = "none"
    /\ periodic' = "sleeping"
    /\ pc' = IF pc = "scanned" THEN "forever" ELSE pc
    /\ enter_scan

\* periodic_monitoring(): the loop enters get_voice_chat_participants
BeginPeriodicScan ==
    /\ periodic = "sleeping"
    /\ periodic' = "scanning"
    /\ enter_scan
    /\ UNCHANGED pc

\* periodic_monitoring(): the scan returns and the loop sleeps
PeriodicScan ==
    /\ periodic = "scanning"
    /\ periodic' = "sleeping"
    /\ Scan
    /\ UNCHANGED pc

NoLookup == [kind |-> "pending", broadcast |-> FALSE, megagroup |-> FALSE]

ClassifierIdle ==
    /\ participant = Member(2, CHOOSE prof \in Profiles : ~prof.bot /\ prof.username = s_john)
    /\ user = NoLookup
    /\ rule = "pending"
    /\ verdict = FALSE

(***************************************************************************)
(* The burst detector.  bot.py declares its state, mute_history (line 41),  *)
(* and config.py its parameters; the recording step follows section 4.2   *)
(* of the specification.                                                   *)
(***************************************************************************)
TIME_WINDOW == 30

\* Variant: a threshold one too high
MUTE_SPAM_THRESHOLD_plus_one == 3 + 1

MUTE_SPAM_THRESHOLD == 3
HISTORY_MAXLEN == 10

\* Variant: a deque without maxlen
deque_append_unbounded(h, x) == Append(h, x)

\* deque(maxlen=10).append(x): a full deque drops its oldest entry
deque_append(h, x) ==
    IF Len(h) >= HISTORY_MAXLEN THEN Tail(h) \o <<x>> ELSE Append(h, x)

\* step 2: the entries with timestamp > t - TIME_WINDOW
recent(h, t) == {j \in 1..Len(h) : h[j] > t - TIME_WINDOW}

\* step 3: the alarm condition on the history after the append
burst(h, t) == Cardinality(recent(h, t)) >= MUTE_SPAM_THRESHOLD

\* Variant: an alarm trims the counted entries only
history_after_trim(h, alarm) ==
    IF alarm THEN SubSeq(h, 1, Len(h) - MUTE_SPAM_THRESHOLD) ELSE h

\* steps 3 and 4: the history the call leaves behind
history_after(h, alarm) == IF alarm THEN <<>> ELSE h

\* Variant: an alarm clears the whole map
recordAndCheck_clear_all(i) ==
    LET h == deque_append(mute_history[i], now)
        alarm == burst(h, now)
    IN /\ mute_history' = IF alarm THEN [j \in Ids |-> <<>>]
                          ELSE [mute_history EXCEPT ![i] = h]
       /\ alarmed' = alarm
       /\ last_identity' = i

\* recordAndCheck(identity, timestamp) with timestamp = now
recordAndCheck(i) ==
    LET h == deque_append(mute_history[i], now)
        alarm == burst(h, now)
    IN /\ mute_history' = [mute_history EXCEPT ![i] = history_after(h, alarm)]
       /\ alarmed' = alarm
       /\ last_identity' = i

MaxEvents == 4
MaxAdvance == 35

\* the clock value the burst runs start from: room for a full history of
\* events one window apart
StartTime == HISTORY_MAXLEN * TIME_WINDOW

\* k events one window apart, the last one a window before StartTime
SlowHistory(k) == [j \in 1..k |-> StartTime - (k - j + 1) * TIME_WINDOW]

\* the same with the last event 5 seconds before StartTime
TightHistory(k) ==
    [j \in 1..k |-> IF j = k THEN StartTime - 5 ELSE SlowHistory(k)[j]]

\* Histories a run of alarm-free events leaves behind: empty, short, one
\* short of full, and full
InitialHistories ==
    {SlowHistory(k) : k \in {0, 1, 2, HISTORY_MAXLEN - 1, HISTORY_MAXLEN}}
    \cup {TightHistory(k) : k \in {2, HISTORY_MAXLEN}}

BurstIdle ==
    /\ now = 0
    /\ mute_history = [i \in Ids |-> <<>>]
    /\ alarmed = FALSE
    /\ last_identity = 0
    /\ events = 0

\* config.py as it stands, and a constructed monitor
ConfigIdle ==
    /\ config = [threshold |-> MUTE_SPAM_THRESHOLD, window |-> TIME_WINDOW,
                 capacity |-> HISTORY_MAXLEN]
    /\ constructed = TRUE

InitBurst ==
    /\ ClassifierIdle
    /\ MonitorIdle
    /\ now = StartTime
    /\ mute_history \in [Ids -> InitialHistories]
    /\ alarmed = FALSE
    /\ last_identity = 0
    /\ events = 0
    /\ ConfigIdle

\* the clock advances between events
Tick ==
    /\ \E d \in {5, TIME_WINDOW} :
          /\ now + d <= StartTime + MaxAdvance
          /\ now' = now + d
    /\ UNCHANGED <<mute_history, alarmed, last_identity, events>>

\* a mute / unmute event of identity i is recorded
Record ==
    /\ events < MaxEvents
    /\ \E i \in Ids : recordAndCheck(i)
    /\ events' = events + 1
    /\ UNCHANGED now

NextBurst ==
    \/ (Tick /\ UNCHANGED <<classifier_vars, monitor_vars, config_vars>>)
    \/ (Record /\ UNCHANGED <<classifier_vars, monitor_vars, config_vars>>)

SpecBurst == InitBurst /\ [][NextBurst]_vars

(***************************************************************************)
(* Specification of the classifier: every record, classified once.         *)
(***************************************************************************)
\* Every participant record, alone in the group, before its first scan.
InitClassify ==
    /\ participant \in Participants
    /\ user = NoLookup
    /\ rule = "pending"
    /\ verdict = FALSE
    /\ pc = "new"
    /\ periodic = "none"
    /\ group = [i \in {participant.id} |-> participant]
    /\ fresh = FALSE
    /\ admin_ids = {}
    /\ banned_channels = {}
    /\ user_states = NoEntries
    /\ last_participants = NoEntries
    /\ ban_requests = {}
    /\ sent = {}
    /\ last_scan = NoScan
    /\ BurstIdle
    /\ ConfigIdle

\* check_and_ban_channels on that group: the participant is classified as
\* lines 210-214 do it and, when found a channel, handed to ban_channel.
\* user records what get_entity yielded when is_channel got to call it.
Classify ==
    /\ rule = "pending"
    /\ \E err \in SUBSET looked_up :
          LET u == lookup(participant.id, err)
              issued == ban_issued(channels_found(err))
          IN \E ban_fail \in SUBSET issued :
                /\ user' = IF participant.id \in looked_up THEN u ELSE user
                /\ rule' = classify_rule(participant, u)
                /\ verdict' = classify(participant, u)
                /\ check_and_ban_channels(err, ban_fail)
                /\ sent' = ban_messages(issued, ban_fail)
    /\ fresh' = TRUE
    /\ UNCHANGED <<participant, pc, periodic, group, admin_ids, user_states,
                   last_participants, last_scan, burst_vars, config_vars>>

NextClassify == Classify

SpecClassify == InitClassify /\ [][NextClassify]_vars

(***************************************************************************)
(* Specification of the monitor                                            *)
(***************************************************************************)
(***************************************************************************)
(* Construction: VoiceChatMonitor() over the values of the config module   *)
(***************************************************************************)
MaxThreshold == 12

\* The values the monitoring settings of config.py may be edited to; the
\* capacity is the literal maxlen of __init__.
Configurations ==
    [threshold : -1..MaxThreshold,
     window : {-TIME_WINDOW, -1, 0, 1, TIME_WINDOW},
     capacity : {HISTORY_MAXLEN}]

InitConfig ==
    /\ ClassifierIdle
    /\ MonitorIdle
    /\ BurstIdle
    /\ config \in Configurations
    /\ constructed = FALSE

\* VoiceChatMonitor.__init__: the fields are created; MUTE_SPAM_THRESHOLD and
\* TIME_WINDOW are not read and nothing is raised
VoiceChatMonitor_init ==
    /\ ~constructed
    /\ constructed' = TRUE
    /\ UNCHANGED <<config, classifier_vars, monitor_vars, burst_vars>>

NextConfig == VoiceChatMonitor_init

SpecConfig == InitConfig /\ [][NextConfig]_vars

Init ==
    /\ ClassifierIdle
    /\ MonitorIdle
    /\ BurstIdle
    /\ ConfigIdle

Next ==
    \/ (Join /\ UNCHANGED <<classifier_vars, burst_vars, config_vars>>)
    \/ (Leave /\ UNCHANGED <<classifier_vars, burst_vars, config_vars>>)
    \/ (get_admin_list /\ UNCHANGED <<classifier_vars, burst_vars, config_vars>>)
    \/ (BeginInitialScan /\ UNCHANGED <<classifier_vars, burst_vars, config_vars>>)
    \/ (InitialScan /\ UNCHANGED <<classifier_vars, burst_vars, config_vars>>)
    \/ (create_task /\ UNCHANGED <<classifier_vars, burst_vars, config_vars>>)
    \/ (BeginPeriodicScan /\ UNCHANGED <<classifier_vars, burst_vars, config_vars>>)
    \/ (PeriodicScan /\ UNCHANGED <<classifier_vars, burst_vars, config_vars>>)

Spec == Init /\ [][Next]_vars

(***************************************************************************)
(* The rules of the specification's classifier (section 4.1), stated on    *)
(* the classified record: `participant` and, for the platform's type       *)
(* flags, the entity `user` that the lookup returned.                      *)
(***************************************************************************)
classified == rule # "pending"

\* isExplicitChannelType as observed: a Channel instance, or the looked-up
\* entity is flagged broadcast or megagroup
ObservedExplicitType ==
    \/ participant.is_Channel
    \/ (user.kind = "Channel" /\ (user.broadcast \/ user.megagroup))

\* username as observed: is_channel reads it from the looked-up entity, so a
\* failed lookup yields none
ObservedUsername == IF user.kind = "error" THEN Empty ELSE participant.username

\* isExplicitChannelType of the account itself, whatever the lookup did
ExplicitType(p) ==
    \/ p.is_Channel
    \/ (p.entity.kind = "Channel" /\ (p.entity.broadcast \/ p.entity.megagroup))

NoPersonalName(p) == Len(p.first_name) = 0 /\ Len(p.last_name) = 0

\* first and last name joined by a space and trimmed
NameText(p) ==
    IF Len(p.first_name) = 0 THEN p.last_name
    ELSE IF Len(p.last_name) = 0 THEN p.first_name
    ELSE JoinSpace(p.first_name, p.last_name)

HasKeyword(text, kws) == \E kw \in kws : Contains(Lower(text), kw)

Rule3_ParticipantCount(p) == \E n \in p.participants_count : n > 0
Rule4_Verified(p) == p.verified
Rule5_TitleOnly(p) == Len(p.title) > 0 /\ NoPersonalName(p)
Rule6_UsernameKeyword(username) ==
    Len(username) > 0 /\ HasKeyword(username, {kw_channel, kw_chat, kw_group, kw_bot})
Rule7_NameKeyword(p) ==
    HasKeyword(NameText(p),
               {kw_channel, kw_chat, kw_group, kw_news, kw_broadcast, kw_telegram})
Rule8_UsernameOnly(p, username) == NoPersonalName(p) /\ Len(username) > 0

\* The number of the rule section 4.1 lets decide, the bot exclusion (rule 2)
\* being checked first as that section requires
SpecRuleNumber ==
    IF participant.bot THEN 2
    ELSE IF ObservedExplicitType THEN 1
    ELSE IF Rule3_ParticipantCount(participant) THEN 3
    ELSE IF Rule4_Verified(participant) THEN 4
    ELSE IF Rule5_TitleOnly(participant) THEN 5
    ELSE IF Rule6_UsernameKeyword(ObservedUsername) THEN 6
    ELSE IF Rule7_NameKeyword(participant) THEN 7
    ELSE IF Rule8_UsernameOnly(participant, ObservedUsername) THEN 8
    ELSE 9

(***************************************************************************)
(* Claims on the classifier, checked under SpecClassify                    *)
(***************************************************************************)

\* C1: a participant with bot = TRUE is never classified a channel, whatever
\* its other fields (a Channel instance, a broadcast entity, any username),
\* and the ban pass issues no ban request and records no ban for it.
C1_BotNeverChannel ==
    (classified /\ participant.bot) =>
        /\ verdict = FALSE
        /\ ban_requests = {}
        /\ banned_channels = {}
        /\ sent = {}

C1_Witness ==
    /\ classified
    /\ participant.bot
    /\ participant.is_Channel
    /\ participant.entity.kind = "Channel" /\ participant.entity.broadcast
    /\ participant.username = s_News_Channel
    /\ verdict = FALSE
    /\ ban_requests = {}

C3_SpecRuleOrder ==
    classified => (verdict = (SpecRuleNumber \in {1, 3, 4, 5, 6, 7, 8}))

\* The checks the code makes, in the order it makes them
CodeChecks ==
    << [name |-> "bot_skip", holds |-> participant.bot],
       [name |-> "isinstance", holds |-> participant.is_Channel],
       [name |-> "error", holds |-> user.kind = "error"],
       [name |-> "broadcast", holds |-> user.kind = "Channel" /\ user.broadcast],
       [name |-> "megagroup", holds |-> user.kind = "Channel" /\ user.megagroup],
       [name |-> "username",
        holds |-> Len(participant.username) > 0
                  /\ Contains(Lower(participant.username), kw_channel)],
       [name |-> "default", holds |-> TRUE] >>

FirstMatch ==
    CodeChecks[CHOOSE k \in 1..Len(CodeChecks) :
                  /\ CodeChecks[k].holds
                  /\ \A j \in 1..(k - 1) : ~CodeChecks[j].holds].name

\* C3 as amended: the checks are bot exclusion, Channel instance, failed
\* lookup, broadcast, megagroup, username containing "channel", default, in
\* that order; the first that holds decides, and only the type checks and
\* the username check yield channel.  Username "football_chat" with no
\* personal name is not a channel.
C3_CodeRuleOrder ==
    classified =>
        /\ rule = FirstMatch
        /\ verdict = (rule \in {"isinstance", "broadcast", "megagroup", "username"})
        /\ (/\ ~participant.bot /\ ~ObservedExplicitType
            /\ participant.username = s_football_chat
            /\ NoPersonalName(participant)) => verdict = FALSE

C3_Witness ==
    /\ classified
    /\ user.kind = "Channel" /\ user.broadcast /\ user.megagroup
    /\ participant.username = s_News_Channel
    /\ rule = "broadcast"
    /\ verdict = TRUE

NoSpecRuleMatches(p) ==
    /\ ~p.bot
    /\ ~ExplicitType(p)
    /\ ~Rule3_ParticipantCount(p)
    /\ ~Rule4_Verified(p)
    /\ ~Rule5_TitleOnly(p)
    /\ ~Rule6_UsernameKeyword(p.username)
    /\ ~Rule7_NameKeyword(p)
    /\ ~Rule8_UsernameOnly(p, p.username)

\* C6: a record matching none of rules 1-8 is classified not a channel, and
\* the ban pass issues no ban request and records no ban for it.
C6_DefaultNotChannel ==
    (classified /\ NoSpecRuleMatches(participant)) =>
        /\ verdict = FALSE
        /\ ban_requests = {}
        /\ banned_channels = {}
        /\ sent = {}

C6_Witness ==
    /\ classified
    /\ NoSpecRuleMatches(participant)
    /\ participant.first_name = s_John
    /\ participant.last_name = s_Smith
    /\ participant.username = Empty
    /\ participant.title = Empty
    /\ rule = "default"
    /\ verdict = FALSE
    /\ ban_requests = {}

(***************************************************************************)
(* Claims on the burst detector, checked under SpecBurst                   *)
(***************************************************************************)
\* a step that is a recordAndCheck call
Recorded == events' # events

\* h with x appended, cut to its 10 most recent entries
AppendedLast10(h, x) ==
    LET a == Append(h, x)
    IN IF Len(a) > 10 THEN SubSeq(a, Len(a) - 9, Len(a)) ELSE a

\* the entries of h later than t - TIME_WINDOW
CountWithinWindow(h, t) == Cardinality({j \in 1..Len(h) : h[j] > t - TIME_WINDOW})

\* C7: recordAndCheck returns alarmed = TRUE exactly when, the new timestamp
\* appended, at least MUTE_SPAM_THRESHOLD entries of the identity's history
\* are later than now - TIME_WINDOW; events at t, t+5, t+10 alarm on the third.
C7_AlarmExactlyAtThreshold ==
    [][Recorded =>
         LET before == mute_history[last_identity']
         IN /\ alarmed' = (CountWithinWindow(AppendedLast10(before, now), now)
                              >= MUTE_SPAM_THRESHOLD)
            /\ (before = <<now - 10, now - 5>>) => alarmed' = TRUE
            /\ (Len(before) < 2) => alarmed' = FALSE]_vars

C7_Witness ==
    /\ events = 3
    /\ now = StartTime + 10
    /\ alarmed = TRUE
    /\ last_identity = 2
    /\ mute_history[3] = <<>>

\* C8: an alarm leaves the identity's history empty, so that the next single
\* event of that identity does not alarm; without an alarm the history is
\* the former one with the new timestamp appended.
C8_AlarmClearsHistory ==
    [][Recorded =>
         LET i == last_identity'
         IN /\ alarmed' => mute_history'[i] = <<>>
            /\ ~alarmed' => mute_history'[i] = AppendedLast10(mute_history[i], now)
            /\ (mute_history[i] = <<>>) =>
                  (~alarmed' /\ mute_history'[i] = <<now>>)]_vars

C8_Witness ==
    /\ events = 4
    /\ ~alarmed
    /\ last_identity = 2
    /\ mute_history[2] = <<StartTime + 35>>
    /\ mute_history[3] = <<>>

\* C9: a history never holds more than 10 timestamps, they are in insertion
\* (time) order, and an append to a full history drops exactly the oldest
\* entry: 11 events without an alarm leave the 10 most recent.
C9_HistoryBounded ==
    /\ [](\A i \in Ids :
            /\ Len(mute_history[i]) <= 10
            /\ \A j \in 1..(Len(mute_history[i]) - 1) :
                  mute_history[i][j] <= mute_history[i][j + 1])
    /\ [][(Recorded /\ ~alarmed' /\ Len(mute_history[last_identity']) = 10) =>
            mute_history'[last_identity'] =
                Tail(mute_history[last_identity']) \o <<now>>]_vars

C9_Witness ==
    /\ events = 1
    /\ ~alarmed
    /\ last_identity = 2
    /\ Len(mute_history[2]) = 10
    /\ mute_history[2][10] = now
    /\ mute_history[2][1] = SlowHistory(10)[2]

\* C10: recording an event for one identity, alarm or not, leaves the
\* history of every other identity as it was.
C10_OtherHistoriesUnchanged ==
    [][Recorded =>
         \A b \in Ids \ {last_identity'} : mute_history'[b] = mute_history[b]]_vars

C10_Witness ==
    /\ events > 0
    /\ alarmed
    /\ last_identity = 2
    /\ mute_history[2] = <<>>
    /\ Len(mute_history[3]) = 10

(***************************************************************************)
(* The scan cycle                                                          *)
(***************************************************************************)
\* A step in which a get_voice_chat_participants call returns
ScanReturns ==
    \/ (pc = "initial_scan" /\ pc' = "scanned")
    \/ (periodic = "scanning" /\ periodic' = "sleeping")

\* The ids a kind of message of the last scan is about
sent_ids(kind) == {m.id : m \in {n \in sent : n.kind = kind}}

\* C11: classifying the same participant record twice gives the same result
\* both times: the ids the ban pass of a scan classified as channels are the
\* ids its tracking pass classified as channels, whatever the monitor did
\* in between.
C11_SameRecordSameResult == last_scan.found = last_scan.skipped

\* The number of get_voice_chat_participants calls in progress
scans_running ==
    (IF pc = "initial_scan" THEN 1 ELSE 0) + (IF periodic = "scanning" THEN 1 ELSE 0)

\* C12: no two scan cycles run at the same time: the periodic task exists
\* only once the initial scan of start() has returned, and a step that enters
\* a scan is taken only while no scan is in progress.
C12_ScansSequential ==
    /\ [](/\ scans_running <= 1
          /\ (periodic # "none" => pc = "forever"))
    /\ [][(scans_running' > scans_running) => scans_running = 0]_vars

C12_Witness ==
    /\ periodic = "scanning"
    /\ pc = "forever"
    /\ fresh
    /\ last_scan.ok

\* C13: an id whose ban succeeded is in banned_channels from that scan on,
\* banned_channels never loses an id, and no ban request is ever issued for
\* an id that was already in banned_channels.
C13_BannedOnceNeverAgain ==
    /\ [](sent_ids("BANNED") \subseteq banned_channels)
    /\ [][/\ banned_channels \subseteq banned_channels'
          /\ ScanReturns => ban_requests' \cap banned_channels = {}]_vars

\* A scan found an already banned id a channel again and issued no request
C13_Witness ==
    /\ fresh
    /\ \E i \in last_scan.found \cap banned_channels : i \notin ban_requests

\* C14: no MIC ON or MIC OFF message is sent for an id in the admin set
\* loaded at startup, and no admin id is a key of user_states.
C14_AdminsNeverLogged ==
    /\ (sent_ids("MIC_ON") \cup sent_ids("MIC_OFF")) \cap admin_ids = {}
    /\ DOMAIN user_states \cap admin_ids = {}

\* A scan returned an admin whose id would count as speaking, next to a
\* tracked non-admin
C14_Witness ==
    /\ fresh
    /\ 3 \in admin_ids \cap last_scan.returned
    /\ 2 \in DOMAIN user_states

(***************************************************************************)
(* Display name of a banned channel                                        *)
(***************************************************************************)
ExpectedDisplayName(p) ==
    CASE p.title # Empty -> p.title
      [] p.title = Empty /\ p.first_name # Empty /\ p.last_name # Empty ->
            p.first_name \o <<" ">> \o p.last_name
      [] p.title = Empty /\ p.first_name # Empty /\ p.last_name = Empty ->
            p.first_name
      [] OTHER -> <<"C","h","a","n","n","e","l">> \o Decimal(p.id)

\* C15: the name in the message about a ban is the title if it is not empty,
\* else first name, a space and last name if both are not empty, else the
\* first name alone if it is not empty, else "Channel" followed by the id.
C15_DisplayNamePreference ==
    \A m \in sent :
        m.kind \in {"BANNED", "BAN_FAILED"} =>
            m.name = ExpectedDisplayName(participant)

\* A banned record with only a last name gets the placeholder
C15_Witness ==
    /\ classified
    /\ participant.id = 3
    /\ participant.title = Empty
    /\ participant.first_name = Empty
    /\ participant.last_name # Empty
    /\ \E m \in sent : m.kind = "BANNED" /\ m.name = <<"C","h","a","n","n","e","l","3">>

(***************************************************************************)
(* Configuration                                                           *)
(***************************************************************************)
ValidConfiguration(c) ==
    /\ c.threshold > 0
    /\ c.window > 0
    /\ c.capacity >= c.threshold

\* C16: a configuration with threshold <= 0, window <= 0 or capacity below
\* the threshold is rejected at construction: no monitor is ever constructed
\* over such a configuration.
C16_InvalidConfigurationRejected == constructed => ValidConfiguration(config)

(***************************************************************************)
(* Speaking changes                                                        *)
(***************************************************************************)
\* The messages of a kind the last scan sent about id i
sent_about(kind, i) == {m \in sent : m.kind = kind /\ m.id = i}

\* C17: when a scan succeeds, for every non-admin participant it returned:
\* exactly one MIC ON is sent if the speaking flag went from false to true or
\* the participant is new and speaking, none otherwise; exactly one MIC OFF
\* is sent if the flag went from true to false, none otherwise; and the
\* stored flag is the one observed.  No other id gets such a message.
C17_OneMessagePerChange ==
    [][(ScanReturns /\ last_scan'.ok) =>
        /\ \A i \in {j \in last_scan'.returned : ~last_participants'[j].is_admin} :
              LET known == i \in DOMAIN user_states
                  before == IF known THEN user_states[i].speaking ELSE FALSE
                  observed == last_participants'[i].speaking
              IN /\ Cardinality(sent_about("MIC_ON", i)') =
                        (IF ~before /\ observed THEN 1 ELSE 0)
                 /\ Cardinality(sent_about("MIC_OFF", i)') =
                        (IF before /\ ~observed THEN 1 ELSE 0)
                 /\ i \in DOMAIN user_states'
                 /\ user_states'[i].speaking = observed
        /\ (sent_ids("MIC_ON") \cup sent_ids("MIC_OFF"))' \subseteq
              {j \in last_scan'.returned : ~last_participants'[j].is_admin}]_vars

\* A periodic scan announced a new speaking participant and sent nothing
\* about a silent one
C17_Witness ==
    /\ fresh
    /\ last_scan.ok
    /\ periodic = "sleeping"
    /\ sent_ids("MIC_ON") = {3}
    /\ 2 \in DOMAIN user_states
    /\ ~user_states[2].speaking
    /\ user_states[3].speaking

\* is_speaking is computed from the id and the admin set alone
SpeakingFlagNeverChanges ==
    /\ sent_ids("MIC_OFF") = {}
    /\ \A i \in DOMAIN user_states : user_states[i].speaking = (i % 3 = 0)

\* C18: a ban request that raises produces the failure message and leaves
\* the id out of banned_channels, and the next scan that still finds the id
\* a channel issues a request for it again.
C18_FailedBanRetried ==
    /\ [](\A i \in sent_ids("BAN_FAILED") :
             /\ i \in ban_requests
             /\ i \notin banned_channels
             /\ i \notin sent_ids("BANNED"))
    /\ [][(ScanReturns /\ last_scan'.ok) =>
             \A i \in sent_ids("BAN_FAILED") \cap last_scan'.found :
                 i \in ban_requests']_vars

\* A periodic scan in which the request for one id raised
C18_Witness ==
    /\ fresh
    /\ periodic = "sleeping"
    /\ \E i \in sent_ids("BAN_FAILED") : i \in last_scan.found \ banned_channels

\* C19: after a scan whose detect_speaking_changes completed, every key of
\* user_states is an id of the mapping that scan built: the entries of users
\* who left are deleted, so a speaking participant without an entry, one who
\* left and returned included, is announced with MIC ON.
C19_StatesOnlyPresent ==
    /\ []((fresh /\ last_scan.ok) =>
             /\ DOMAIN user_states \subseteq last_scan.returned
             /\ last_scan.removed \cap DOMAIN user_states = {})
    /\ [][(ScanReturns /\ last_scan'.ok) =>
             \A i \in last_scan'.returned \ DOMAIN user_states :
                 (last_participants'[i].speaking /\ ~last_participants'[i].is_admin)
                     => i \in sent_ids("MIC_ON")']_vars

\* The entry of the speaking participant 3 was deleted by a scan that still
\* returned participant 2
C19_Witness ==
    /\ fresh
    /\ last_scan.ok
    /\ last_scan.removed = {3}
    /\ DOMAIN user_states = {2}

(***************************************************************************)
(* Failed fetch                                                            *)
(***************************************************************************)
\* C20: a scan whose fetch of the group or of its participants fails
\* returns the empty mapping, leaves user_states, last_participants and
\* banned_channels as they were, and sends no message.
C20_FailedFetchChangesNothing ==
    [][(ScanReturns /\ ~last_scan'.ok) =>
         /\ last_scan'.returned = {}
         /\ user_states' = user_states
         /\ last_participants' = last_participants
         /\ banned_channels' = banned_channels
         /\ sent' = {}
         /\ ban_requests' = {}]_vars

\* A failed periodic scan with tracked users and a banned id in place
C20_Witness ==
    /\ fresh
    /\ ~last_scan.ok
    /\ periodic = "sleeping"
    /\ 3 \in DOMAIN user_states
    /\ 3 \in DOMAIN last_participants
    /\ banned_channels # {}

====
